---- MODULE Spec2Model ----
(***************************************************************************)
(* Model of the 1&1 cloud server Ansible modules (src/oneandone/*.py).     *)
(*                                                                         *)
(* One run of a module is a sequential program: main parses the            *)
(* parameters, branches on `state`, calls a handler, the handler issues    *)
(* API calls and possibly polls, and main emits the result.  The API       *)
(* client (oneandone.client) is the environment: every call may raise, a   *)
(* lookup may find nothing, and a status read returns any status.          *)
(*                                                                         *)
(* Time is the integer clock `now` (seconds).  time.sleep(n) advances it   *)
(* by n; API calls take no time.                                           *)
(***************************************************************************)
EXTENDS Integers, Sequences, FiniteSets, TLC

\* ------------------------------------------------------------------ bounds
\* Largest wait_timeout parameter tried (seconds).
MaxWaitTimeout == 11
\* Largest wait_interval parameter tried (seconds).
MaxInterval == 3
\* Value of time.time() when the process starts.
StartTime == 1
\* Largest count parameter tried.
MaxCount == 2
\* Longest instance_ids list tried.
MaxInstances == 2
\* Longest list a list endpoint returns to a lookup tried on its own.
MaxListLen == 3

\* ------------------------------------------------------- program constants
\* time.sleep(5) of the routines that take no wait_interval.
FixedInterval == 5

None == "None"

\* ------------------------------------------------------------ status values
ONEANDONE_MACHINE_STATES ==
    {"DEPLOYING", "POWERED_OFF", "POWERED_ON", "POWERING_ON", "POWERING_OFF"}

\* Status strings an API read may return: the machine states, the resource
\* states in upper and lower case, and a state no routine knows.
Statuses ==
    ONEANDONE_MACHINE_STATES \cup
    {"powered_on", "ACTIVE", "active", "FAILED", "ENABLED", "CONFIGURING",
     "REMOVING"}

\* str.lower() on the status strings.
Lower(s) ==
    CASE s = "DEPLOYING"    -> "deploying"
      [] s = "POWERED_OFF"  -> "powered_off"
      [] s = "POWERED_ON"   -> "powered_on"
      [] s = "POWERING_ON"  -> "powering_on"
      [] s = "POWERING_OFF" -> "powering_off"
      [] s = "ACTIVE"       -> "active"
      [] s = "FAILED"       -> "failed"
      [] s = "ENABLED"      -> "enabled"
      [] s = "CONFIGURING"  -> "configuring"
      [] s = "REMOVING"     -> "removing"
      [] OTHER              -> s

\* ------------------------------------------------------------ wait routines
CreationRoutines ==
    {"machine", "machine_legacy", "public_ip", "vpn", "network",
     "firewall_policy", "load_balancer", "monitoring_policy", "role",
     "user", "users"}

DeletionRoutines == {"machine_deletion", "network_deletion"}

Routines == CreationRoutines \cup DeletionRoutines

\* The status on which a creation routine returns.
SuccessState(r) ==
    IF r \in {"machine", "machine_legacy"} THEN "powered_on" ELSE "active"

\* The statuses on which a creation routine keeps polling (the `continue`
\* branch, reached only when the success and failed tests did not match).
InProgressStates(r) ==
    CASE r \in {"machine", "machine_legacy"} ->
            {"active", "enabled", "deploying"}
      [] r = "public_ip" -> {"configuring"}
      [] r \in {"vpn", "network", "monitoring_policy", "user"} ->
            {"enabled", "deploying", "configuring"}
      [] r \in {"firewall_policy", "load_balancer", "role", "users"} ->
            {"active", "enabled", "deploying", "configuring"}

\* The argument of time.sleep in the routine's loop.
SleepInterval(r, p) ==
    IF r \in {"machine", "public_ip", "vpn", "network", "user"}
    THEN p.wait_interval
    ELSE FixedInterval

\* The error a creation routine raises on a 'failed' status.  Two routines
\* format the message with an incomplete '%' conversion, which raises
\* ValueError in place of the intended text.
FailedError(r) ==
    IF r \in {"machine_legacy", "firewall_policy"}
    THEN "ValueError: incomplete format"
    ELSE "creation failed"

\* The branch taken by a routine that treats 'failed' as one more in-progress
\* status.
CreationBranchFailedPolls(r, s) ==
    IF Lower(s) = SuccessState(r) THEN "return"
    ELSE IF Lower(s) \in InProgressStates(r) \cup {"failed"} THEN "continue"
    ELSE "raise_unknown"

\* What one iteration of a creation routine does with the status it read.
CreationBranch(r, s) ==
    IF Lower(s) = SuccessState(r) THEN "return"
    ELSE IF Lower(s) = "failed" THEN "raise_failed"
    ELSE IF Lower(s) \in InProgressStates(r) THEN "continue"
    ELSE "raise_unknown"

\* Entries list_logs may return while a deletion is awaited.
LogEntries ==
    {[resource |-> "target", action |-> "DELETE", type |-> "own", state |-> "OK"],
     [resource |-> "target", action |-> "DELETE", type |-> "own", state |-> "ERROR"],
     [resource |-> "other",  action |-> "DELETE", type |-> "own", state |-> "OK"],
     [resource |-> "target", action |-> "DELETE", type |-> "foreign", state |-> "OK"]}

\* The test the deletion routines apply to each log entry.
DeletionLogged(logs) ==
    \E log \in logs :
        /\ log.resource = "target"
        /\ log.action = "DELETE"
        /\ log.type = "own"
        /\ log.state = "OK"

\* ------------------------------------------------------------------- state
VARIABLES
    module,        \* the module that runs
    params,        \* module.params
    pc,            \* position in the run
    now,           \* time.time()
    servers,       \* what list_servers returns: <<[id, name, state], ...>>
    wait_timeout,  \* the local variable wait_timeout of the running function
    routine,       \* the wait routine in progress
    ret,           \* where the wait routine returns to
    lastRead,      \* the status the routine read last
    index,         \* position of the handler's loop in its list (1-based)
    machines,      \* the handler's list of machines
    cur,           \* the handler's variable `machine`
    changed,       \* the handler's variable `changed`
    result,        \* what the run emitted
    calls,         \* mutating API calls issued in this run, in order
    polls,         \* status and log reads issued by wait loops in this run
    sleeps,        \* time.sleep calls in this run
    waitPolls,     \* reads issued by the wait loop in progress
    pollStart,     \* the clock when the wait loop in progress was entered
    pollCheckedAt, \* the clock at the loop test before the latest read
    raised,        \* the exception an API call raised in this run
    missed,        \* a lookup of this run found nothing
    run,           \* 1 for the first run, 2 for a rerun with the same parameters
    prev,          \* the result of the first run, once a rerun started
    handler,       \* the handler main called in this run
    atStart        \* the servers as they were when this run started

vars == <<module, params, pc, now, servers, wait_timeout, routine, ret,
          lastRead, index, machines, cur, changed, result, calls, polls,
          sleeps, waitPolls, pollStart, pollCheckedAt, raised, missed, run,
          prev, handler, atStart>>

\* The variables a wait routine neither reads nor writes.
callerVars == <<module, params, servers, index, machines, cur, changed,
                calls, missed, run, prev, handler, atStart>>

\* kind: "none" while the run is in progress; keys: the keyword arguments
\* passed to exit_json; changed: the value passed as changed=.
NoResult == [kind |-> "none", keys |-> {}, changed |-> FALSE, msg |-> <<>>]

\* ------------------------------------------------- the wait routine, stepwise
\* The loop test with >= in place of >: one more pass at the deadline itself.
DeadlineAheadInclusive(deadline, t) == deadline >= t

\* while wait_timeout > time.time()
DeadlineAhead(deadline, t) == deadline > t

\* wait_timeout = time.time() + wait_timeout
WaitEnter(r, back, timeout) ==
    /\ routine' = r
    /\ ret' = back
    /\ wait_timeout' = now + timeout
    /\ lastRead' = None
    /\ waitPolls' = 0
    /\ pollStart' = now
    /\ pollCheckedAt' = -1
    /\ pc' = "wait_loop"

\* The hardware parameters, all omitted.
NoHardware ==
    [fixed_instance_size |-> None, vcore |-> None,
     cores_per_processor |-> None, ram |-> None, hdds |-> None]

\* instance_ids when the parameter is omitted (None, not a list).
NotAList == [list |-> FALSE, items |-> <<>>]

\* instance_ids given as the list q.
AList(q) == [list |-> TRUE, items |-> q]

\* module.params with every parameter at the value it has when omitted
\* (wait_timeout and wait_interval at small stand-ins for 600 and 5).
DefaultParams ==
    [state |-> "present", auth_token |-> TRUE, wait |-> TRUE,
     wait_timeout |-> FixedInterval, wait_interval |-> 1,
     instance_ids |-> NotAList, count |-> 1, hostname |-> None,
     description |-> None, auto_increment |-> TRUE, appliance |-> None,
     datacenter |-> "US", private_network |-> None, hardware |-> NoHardware,
     name |-> None, key |-> None, others |-> TRUE, options |-> {}]

\* Python truth of a parameter value.
Truthy(v) == v \notin {None, ""}

\* The value `machine` has when no machine is bound to it.
NoMachine == [id |-> None, name |-> None, state |-> None]

\* The run ends: exit_json and fail_json terminate the process, an uncaught
\* error ends it with a traceback, "raised"/"returned" end a bare routine.
Finish(kind, keys, chg, msg) ==
    /\ result' = [kind |-> kind, keys |-> keys, changed |-> chg, msg |-> msg]
    /\ pc' = "done"

\* module.fail_json(msg=...)
fail_json(msg) == Finish("fail_json", {"msg"}, FALSE, msg)

\* An error nothing catches: the process dies with a traceback.
Uncaught(e) == Finish("uncaught", {}, FALSE, <<e>>)

\* An except clause that answers a failed deletion wait by going round the
\* loop again for the same entry.
WaitRaiseRetry(e) ==
    IF ret = "wait_done"
    THEN Finish("raised", {}, FALSE, <<e>>)
    ELSE IF ret = "remove_confirmed"
    THEN pc' = "remove_loop" /\ UNCHANGED result
    ELSE fail_json(<<e>>)

\* An except clause that passes over a failed creation wait and lets
\* _create_machine go on.
WaitRaiseContinue(e) ==
    IF ret = "wait_done"
    THEN Finish("raised", {}, FALSE, <<e>>)
    ELSE IF ret = "create_refresh"
    THEN pc' = "create_refresh" /\ UNCHANGED result
    ELSE fail_json(<<e>>)

\* The except clause an error raised inside a wait routine reaches, by the
\* place the routine was called from.
WaitRaise(e) ==
    IF ret = "wait_done"
    THEN Finish("raised", {}, FALSE, <<e>>)
    ELSE IF ret = "remove_confirmed"
    THEN fail_json(<<"failed to terminate the machine: ", e>>)
    ELSE fail_json(<<e>>)

\* The routine returns to its caller.
WaitReturn ==
    IF ret = "wait_done"
    THEN Finish("returned", {}, FALSE, <<>>)
    ELSE /\ pc' = ret
         /\ UNCHANGED result

\* while wait_timeout > time.time(): the deadline has passed, the loop ends
\* and the routine raises its timeout error.
WaitExpire ==
    /\ pc = "wait_loop"
    /\ ~DeadlineAhead(wait_timeout, now)
    /\ WaitRaise("timed out")
    /\ UNCHANGED <<callerVars, now, wait_timeout, routine, ret, lastRead,
                   polls, sleeps, waitPolls, pollStart, pollCheckedAt, raised>>

\* One iteration of a creation routine: sleep, refresh the resource, branch
\* on its status.
WaitPollCreation ==
    /\ pc = "wait_loop"
    /\ routine \in CreationRoutines
    /\ DeadlineAhead(wait_timeout, now)
    /\ now' = now + SleepInterval(routine, params)
    /\ sleeps' = sleeps + 1
    /\ polls' = polls + 1
    /\ waitPolls' = waitPolls + 1
    /\ pollCheckedAt' = now
    /\ \/ /\ raised' = "ApiError"
          /\ WaitRaise("ApiError")
          /\ UNCHANGED lastRead
       \/ \E s \in Statuses :
            /\ lastRead' = s
            /\ UNCHANGED raised
            /\ CASE CreationBranch(routine, s) = "return" -> WaitReturn
                 [] CreationBranch(routine, s) = "raise_failed" ->
                        WaitRaise(FailedError(routine))
                 [] CreationBranch(routine, s) = "raise_unknown" ->
                        WaitRaise("unknown state")
                 [] OTHER -> UNCHANGED <<pc, result>>
    /\ UNCHANGED <<callerVars, wait_timeout, routine, ret, pollStart>>

\* One iteration of a deletion routine: sleep, list the DELETE logs, return
\* if one of them reports the resource deleted.
WaitPollDeletion ==
    /\ pc = "wait_loop"
    /\ routine \in DeletionRoutines
    /\ DeadlineAhead(wait_timeout, now)
    /\ now' = now + FixedInterval
    /\ sleeps' = sleeps + 1
    /\ polls' = polls + 1
    /\ waitPolls' = waitPolls + 1
    /\ pollCheckedAt' = now
    /\ \/ /\ raised' = "ApiError"
          /\ WaitRaise("ApiError")
          /\ UNCHANGED lastRead
       \/ \E logs \in SUBSET LogEntries :
            /\ lastRead' = IF DeletionLogged(logs) THEN "logged" ELSE "not logged"
            /\ UNCHANGED raised
            /\ IF DeletionLogged(logs)
               THEN WaitReturn
               ELSE UNCHANGED <<pc, result>>
    /\ UNCHANGED <<callerVars, wait_timeout, routine, ret, pollStart>>

\* ------------------------------------------- the wait routines on their own
\* A routine called directly with a timeout and an interval.
WaitCall ==
    /\ pc = "wait_call"
    /\ WaitEnter(routine, "wait_done", params.wait_timeout)
    /\ UNCHANGED <<callerVars, now, result, polls, sleeps, raised>>

\* The state of a process that has just started.
RunStart ==
    /\ now = StartTime
    /\ wait_timeout = -1
    /\ ret = None
    /\ lastRead = None
    /\ index = 0
    /\ machines = <<>>
    /\ cur = NoMachine
    /\ changed = None
    /\ result = NoResult
    /\ calls = <<>>
    /\ polls = 0
    /\ sleeps = 0
    /\ waitPolls = 0
    /\ pollStart = -1
    /\ pollCheckedAt = -1
    /\ raised = None
    /\ missed = FALSE
    /\ run = 1
    /\ prev = NoResult
    /\ handler = None
    /\ atStart = servers

InitWait ==
    /\ module = None
    /\ \E t \in 0..MaxWaitTimeout, i \in 1..MaxInterval :
         params = [DefaultParams EXCEPT !.wait_timeout = t, !.wait_interval = i]
    /\ pc = "wait_call"
    /\ routine \in Routines
    /\ servers = <<>>
    /\ RunStart

NextWait == WaitCall \/ WaitExpire \/ WaitPollCreation \/ WaitPollDeletion

SpecWait == InitWait /\ [][NextWait]_vars

\* ----------------------------------------------------- servers and lookups
\* A scan that keeps the last matching element and not the first.
RECURSIVE FindFromLast(_, _, _)
FindFromLast(srv, instance, i) ==
    IF i > Len(srv) THEN 0
    ELSE LET later == FindFromLast(srv, instance, i + 1)
         IN IF later # 0 THEN later
            ELSE IF instance \in {srv[i].id, srv[i].name} THEN i
            ELSE 0

\* The position of the first server whose id or name equals the identifier,
\* 0 when there is none (the function returns None).
RECURSIVE FindFrom(_, _, _)
FindFrom(srv, instance, i) ==
    IF i > Len(srv) THEN 0
    ELSE IF instance \in {srv[i].id, srv[i].name} THEN i
    ELSE FindFrom(srv, instance, i + 1)

\* The lookup with the scan that keeps the last match.
_find_machine_last(srv, instance) == FindFromLast(srv, instance, 1)

_find_machine(srv, instance) == FindFrom(srv, instance, 1)

\* The server list after the server `id` moved to status `st`.
WithState(srv, id, st) ==
    [i \in DOMAIN srv |->
        IF srv[i].id = id THEN [srv[i] EXCEPT !.state = st] ELSE srv[i]]

\* The server list without the server `id`.
Without(srv, id) == SelectSeq(srv, LAMBDA m : m.id # id)

\* Python's `s in ('POWERED_OFF')`: the parentheses make no tuple, so the
\* test is "s is a substring of the string".  No status string is a proper
\* substring of POWERED_OFF or POWERED_ON.
InString(s, t) == s = t

\* isinstance(instance_ids, list) and len(instance_ids) >= 1
\* (instance_ids is [list |-> is it a list, items |-> its elements])
IsNonEmptyList(ids) == ids.list /\ Len(ids.items) >= 1

\* -------------------------------------------------- oneandone_server: main
Given(v) == v # None

CustomHardware == {"vcore", "cores_per_processor", "ram", "hdds"}

\* AnsibleModule(mutually_exclusive=..., required_together=...): the checks
\* the constructor makes on the parameters that are not None.
ArgumentSpecError(hw) ==
    LET custom == {k \in CustomHardware : Given(hw[k])}
    IN IF Given(hw.fixed_instance_size) /\ custom # {}
       THEN "parameters are mutually exclusive"
       ELSE IF custom # {} /\ custom # CustomHardware
       THEN "parameters are required together"
       ELSE None

\* The first of hostname, appliance, datacenter that is missing.
MissingForPresent(p) ==
    IF ~Truthy(p.hostname) THEN "hostname"
    ELSE IF ~Truthy(p.appliance) THEN "appliance"
    ELSE IF ~Truthy(p.datacenter) THEN "datacenter"
    ELSE None

\* main() of oneandone_server up to the call of the handler.  With a state
\* that matches no branch it reaches exit_json(changed=changed, ...) with
\* `changed` never assigned: UnboundLocalError, which nothing catches.
main_oneandone_server ==
    /\ pc = "main"
    /\ module = "oneandone_server"
    /\ IF ArgumentSpecError(params.hardware) # None
       THEN fail_json(<<ArgumentSpecError(params.hardware)>>)
       ELSE IF ~params.auth_token
       THEN fail_json(<<"auth_token is required">>)
       ELSE IF params.state = "absent"
       THEN pc' = "remove_machine" /\ UNCHANGED result
       ELSE IF params.state \in {"running", "stopped"}
       THEN pc' = "startstop_machine" /\ UNCHANGED result
       ELSE IF params.state = "present"
       THEN IF MissingForPresent(params) # None
            THEN fail_json(<<MissingForPresent(params),
                             " parameter is required for new instance.">>)
            ELSE pc' = "create_machine" /\ UNCHANGED result
       ELSE Uncaught("UnboundLocalError: changed")
    /\ handler' = IF pc' = "done" THEN None ELSE pc'
    /\ UNCHANGED <<module, params, now, servers, wait_timeout, routine, ret,
                   lastRead, index, machines, cur, changed, calls, polls,
                   sleeps, waitPolls, pollStart, pollCheckedAt, raised,
                   missed, run, prev, atStart>>

\* The modules whose main ends each branch with
\* module.exit_json(**handler(module, oneandone_conn)).
DictStyle == {"oneandone_firewall_policy", "oneandone_roles", "oneandone_users"}

\* The keys of a resource as the API returns it.
ResourceKeys == {"id", "name", "state"}

\* The last statement of main: module.exit_json(changed=changed, machines=
\* machines) and its like in the other modules; in the DictStyle modules the
\* keyword arguments are the keys of the resource the handler returned.
main_exit ==
    /\ pc = "main_exit"
    /\ IF module \in DictStyle
       THEN Finish("exit_json", ResourceKeys, FALSE, <<>>)
       ELSE Finish("exit_json", {"changed", "resource"}, changed, <<>>)
    /\ UNCHANGED <<module, params, now, servers, wait_timeout, routine, ret,
                   lastRead, index, machines, cur, changed, calls, polls,
                   sleeps, waitPolls, pollStart, pollCheckedAt, raised,
                   missed, run, prev, handler, atStart>>

\* ------------------------------------------------------- startstop_machine
\* The power state the run asks for and the action that leads to it.
TargetState(st) == IF st = "stopped" THEN "POWERED_OFF" ELSE "POWERED_ON"
PowerAction(st) == IF st = "stopped" THEN "POWER_OFF" ELSE "POWER_ON"

\* The state of a machine that is on its way to the requested state.
Transitional(st) == IF st = "stopped" THEN "POWERING_OFF" ELSE "POWERING_ON"

\* The skip test against the name of the action in place of the state.
AlreadyThereByAction(st, machineState) ==
    InString(machineState, PowerAction(st))

\* The test that lets startstop_machine skip a machine.
AlreadyThere(st, machineState) == InString(machineState, TargetState(st))

\* Entry of startstop_machine: the parameter check and the initial values.
startstop_machine ==
    /\ pc = "startstop_machine"
    /\ IF ~IsNonEmptyList(params.instance_ids)
       THEN /\ fail_json(<<"instance_ids should be a list">>)
            /\ UNCHANGED <<machines, changed, index, wait_timeout>>
       ELSE /\ machines' = <<>>
            /\ changed' = FALSE
            /\ index' = 1
            /\ wait_timeout' = params.wait_timeout
            /\ pc' = "startstop_loop"
            /\ UNCHANGED result
    /\ UNCHANGED <<module, params, now, servers, routine, ret, lastRead, cur,
                   calls, polls, sleeps, waitPolls, pollStart, pollCheckedAt,
                   raised, missed, run, prev,
                   handler, atStart>>

\* The loop is over: machines get their network data and the handler
\* returns (changed, machines) to main.
startstop_return ==
    /\ pc = "startstop_loop"
    /\ index > Len(params.instance_ids.items)
    /\ pc' = "main_exit"
    /\ UNCHANGED <<module, params, now, servers, wait_timeout, routine, ret,
                   lastRead, index, machines, cur, changed, result, calls,
                   polls, sleeps, waitPolls, pollStart, pollCheckedAt, raised,
                   missed, run, prev, handler, atStart>>

\* One pass of the for loop up to the wait: resolve the machine, skip it if
\* it is in the requested state, else ask for the power action.  With wait
\* the local wait_timeout is overwritten by the deadline computed from it.
startstop_instance ==
    /\ pc = "startstop_loop"
    /\ index <= Len(params.instance_ids.items)
    /\ LET instance_id == params.instance_ids.items[index]
           found == _find_machine(servers, instance_id)
           machine == servers[found]
       IN \/ \* list_servers raises; main's except clause reports it
             /\ raised' = "ApiError"
             /\ fail_json(<<"ApiError">>)
             /\ UNCHANGED <<servers, wait_timeout, index, machines, cur,
                            changed, calls, pollStart, pollCheckedAt,
                            waitPolls>>
          \/ /\ found = 0
             /\ index' = index + 1
             /\ UNCHANGED <<servers, wait_timeout, machines, cur, changed,
                            calls, pollStart, pollCheckedAt, waitPolls,
                            raised, pc, result>>
          \/ /\ found # 0
             /\ AlreadyThere(params.state, machine.state)
             /\ machines' = Append(machines, machine)
             /\ index' = index + 1
             /\ UNCHANGED <<servers, wait_timeout, cur, changed, calls,
                            pollStart, pollCheckedAt, waitPolls, raised, pc,
                            result>>
          \/ \* modify_server_status raises
             /\ found # 0
             /\ ~AlreadyThere(params.state, machine.state)
             /\ raised' = "ApiError"
             /\ fail_json(<<"failed to set machine to state: ", "ApiError">>)
             /\ UNCHANGED <<servers, wait_timeout, index, machines, cur,
                            changed, calls, pollStart, pollCheckedAt,
                            waitPolls>>
          \/ /\ found # 0
             /\ ~AlreadyThere(params.state, machine.state)
             /\ calls' = Append(calls,
                    [op |-> "modify_server_status", id |-> machine.id,
                     arg |-> PowerAction(params.state),
                     seen |-> machine.state])
             /\ cur' = machine
             /\ \E after \in {Transitional(params.state),
                              TargetState(params.state)} :
                    servers' = WithState(servers, machine.id, after)
             /\ UNCHANGED <<raised, result>>
             /\ IF params.wait
                THEN /\ wait_timeout' = now + wait_timeout
                     /\ pollStart' = now
                     /\ pollCheckedAt' = -1
                     /\ waitPolls' = 0
                     /\ pc' = "startstop_poll"
                     /\ UNCHANGED <<changed, machines, index>>
                ELSE /\ changed' = TRUE
                     /\ machines' = Append(machines, machine)
                     /\ index' = index + 1
                     /\ UNCHANGED <<wait_timeout, pollStart, pollCheckedAt,
                                    waitPolls, pc>>
    /\ UNCHANGED <<module, params, now, routine, ret, lastRead, polls, sleeps,
                   missed, run, prev, handler, atStart>>

\* while wait_timeout > time.time(): sleep 5 seconds, refresh the machine,
\* leave the loop when it is in the requested state.
startstop_poll ==
    /\ pc = "startstop_poll"
    /\ wait_timeout > now
    /\ now' = now + FixedInterval
    /\ sleeps' = sleeps + 1
    /\ polls' = polls + 1
    /\ waitPolls' = waitPolls + 1
    /\ pollCheckedAt' = now
    /\ \/ \* get_server raises; main's except clause reports it
          /\ raised' = "ApiError"
          /\ fail_json(<<"ApiError">>)
          /\ UNCHANGED <<servers, index, machines, cur, changed>>
       \/ \E machine_state \in ONEANDONE_MACHINE_STATES :
            /\ servers' = WithState(servers, cur.id, machine_state)
            /\ cur' = [cur EXCEPT !.state = machine_state]
            /\ UNCHANGED <<raised, result>>
            /\ IF machine_state = TargetState(params.state)
               THEN /\ changed' = TRUE
                    /\ machines' = Append(machines, cur')
                    /\ index' = index + 1
                    /\ pc' = "startstop_loop"
               ELSE UNCHANGED <<changed, machines, index, pc>>
    /\ UNCHANGED <<module, params, wait_timeout, routine, ret, lastRead,
                   calls, pollStart, missed, run, prev, handler, atStart>>

\* The loop ended on its deadline with operation_completed still False.
startstop_timeout ==
    /\ pc = "startstop_poll"
    /\ ~(wait_timeout > now)
    /\ fail_json(<<"Timeout waiting for machine to get to state">>)
    /\ UNCHANGED <<module, params, now, servers, wait_timeout, routine, ret,
                   lastRead, index, machines, cur, changed, calls, polls,
                   sleeps, waitPolls, pollStart, pollCheckedAt, raised,
                   missed, run, prev, handler, atStart>>

\* The same task run again right after a run that ended in exit_json: a
\* new process, the same parameters, the servers as the first run left them.
Rerun ==
    /\ pc = "done"
    /\ run = 1
    /\ result.kind = "exit_json"
    /\ params.state \in {"running", "stopped"}
    /\ run' = 2
    /\ prev' = result
    /\ pc' = "main"
    /\ result' = NoResult
    /\ wait_timeout' = -1
    /\ index' = 0
    /\ machines' = <<>>
    /\ cur' = NoMachine
    /\ changed' = None
    /\ calls' = <<>>
    /\ polls' = 0
    /\ sleeps' = 0
    /\ waitPolls' = 0
    /\ pollStart' = -1
    /\ pollCheckedAt' = -1
    /\ handler' = None
    /\ atStart' = servers
    /\ UNCHANGED <<module, params, now, servers, routine, ret, lastRead,
                   raised, missed>>

\* ----------------------------------------------------------- remove_machine
\* Entry of remove_machine: the parameter check and the empty result list.
remove_machine ==
    /\ pc = "remove_machine"
    /\ IF ~IsNonEmptyList(params.instance_ids)
       THEN /\ fail_json(<<"instance_ids should be a list">>)
            /\ UNCHANGED <<machines, index>>
       ELSE /\ machines' = <<>>
            /\ index' = 1
            /\ pc' = "remove_loop"
            /\ UNCHANGED result
    /\ UNCHANGED <<module, params, now, servers, wait_timeout, routine, ret,
                   lastRead, cur, changed, calls, polls, sleeps, waitPolls,
                   pollStart, pollCheckedAt, raised, missed, run, prev,
                   handler, atStart>>

\* A handler that reports a change whatever it removed.
RemovedChangedAlways(removed_machines) == TRUE

\* changed = True if removed_machines else False
RemovedChanged(removed_machines) == removed_machines # <<>>

\* The loop is over: changed is True if a machine was removed.
remove_return ==
    /\ pc = "remove_loop"
    /\ index > Len(params.instance_ids.items)
    /\ changed' = RemovedChanged(machines)
    /\ pc' = "main_exit"
    /\ UNCHANGED <<module, params, now, servers, wait_timeout, routine, ret,
                   lastRead, index, machines, cur, result, calls, polls,
                   sleeps, waitPolls, pollStart, pollCheckedAt, raised,
                   missed, run, prev, handler, atStart>>

\* A remove_machine that never waits for a deletion.
RemoveWaitsNever(m, p) == FALSE

\* Whether remove_machine waits for the deletion: oneandone_server does when
\* `wait` is set, the older oneandone module never does.
RemoveWaits(m, p) == m = "oneandone_server" /\ p.wait

\* One pass of the for loop up to the wait: resolve the machine, skip it if
\* there is none, else delete it.  A deleted server may still be listed (in
\* state REMOVING) or be gone from the list already.
remove_instance ==
    /\ pc = "remove_loop"
    /\ index <= Len(params.instance_ids.items)
    /\ LET instance == params.instance_ids.items[index]
           found == _find_machine(servers, instance)
           machine == servers[found]
       IN \/ \* list_servers raises; main's except clause reports it
             /\ raised' = "ApiError"
             /\ fail_json(<<"ApiError">>)
             /\ UNCHANGED <<servers, wait_timeout, routine, ret, lastRead,
                            index, machines, cur, calls, waitPolls, pollStart,
                            pollCheckedAt>>
          \/ /\ found = 0
             /\ index' = index + 1
             /\ UNCHANGED <<servers, wait_timeout, routine, ret, lastRead,
                            machines, cur, calls, waitPolls, pollStart,
                            pollCheckedAt, raised, pc, result>>
          \/ \* delete_server raises
             /\ found # 0
             /\ raised' = "ApiError"
             /\ fail_json(<<"failed to terminate the machine: ", "ApiError">>)
             /\ UNCHANGED <<servers, wait_timeout, routine, ret, lastRead,
                            index, machines, cur, calls, waitPolls, pollStart,
                            pollCheckedAt>>
          \/ /\ found # 0
             /\ calls' = Append(calls,
                    [op |-> "delete_server", id |-> machine.id,
                     arg |-> None, seen |-> machine.state])
             /\ \E gone \in BOOLEAN :
                    servers' = IF gone
                               THEN Without(servers, machine.id)
                               ELSE WithState(servers, machine.id, "REMOVING")
             /\ UNCHANGED <<raised, result>>
             /\ IF RemoveWaits(module, params)
                THEN /\ cur' = machine
                     /\ WaitEnter("machine_deletion", "remove_confirmed",
                                  params.wait_timeout)
                     /\ UNCHANGED <<machines, index>>
                ELSE /\ machines' = Append(machines, machine)
                     /\ index' = index + 1
                     /\ UNCHANGED <<wait_timeout, routine, ret, lastRead, cur,
                                    waitPolls, pollStart, pollCheckedAt, pc>>
    /\ UNCHANGED <<module, params, now, changed, polls, sleeps, missed, run,
                   prev, handler, atStart>>

\* The deletion routine returned: the machine joins removed_machines.
remove_confirmed ==
    /\ pc = "remove_confirmed"
    /\ machines' = Append(machines, cur)
    /\ servers' = Without(servers, cur.id)
    /\ index' = index + 1
    /\ pc' = "remove_loop"
    /\ UNCHANGED <<module, params, now, wait_timeout, routine, ret, lastRead,
                   cur, changed, result, calls, polls, sleeps, waitPolls,
                   pollStart, pollCheckedAt, raised, missed, run, prev,
                   handler, atStart>>

\* ----------------------------------------------------------- create_machine
\* hostname % i, after "%s-%%01d" % hostname when the name holds no '%'.
FormatHostname(hostname, i) ==
    IF hostname = "node%d"
    THEN "node" \o ToString(i)
    ELSE hostname \o "-" \o ToString(i)

\* _auto_increment_hostname, and [hostname] * count without auto_increment.
Hostnames(p) ==
    IF p.auto_increment
    THEN [i \in 1..p.count |-> FormatHostname(p.hostname, i)]
    ELSE [i \in 1..p.count |-> p.hostname]

\* _auto_increment_description evaluates `'%' in description`, a TypeError
\* when the description parameter was omitted.
DescriptionsError(p) ==
    IF p.auto_increment /\ p.description = None
    THEN "TypeError: argument of type 'NoneType' is not iterable"
    ELSE None

\* The lookups create_machine makes, in order.
Lookups(p) ==
    <<"datacenter">>
    \o (IF Truthy(p.hardware.fixed_instance_size)
        THEN <<"fixed_instance_size">> ELSE <<>>)
    \o <<"appliance">>
    \o (IF Truthy(p.private_network) THEN <<"private network">> ELSE <<>>)

\* create_machine up to its for loop: the lookups, then the host names and
\* descriptions.  A lookup whose list call raises, or an error in the name
\* generation, reaches main's except clause; a lookup that finds nothing
\* ends in its own fail_json.
create_machine ==
    /\ pc = "create_machine"
    /\ \/ \E k \in 1..Len(Lookups(params)) :
            \/ /\ raised' = "ApiError"
               /\ fail_json(<<"ApiError">>)
               /\ UNCHANGED missed
            \/ /\ missed' = TRUE
               /\ fail_json(<<Lookups(params)[k], " not found.">>)
               /\ UNCHANGED raised
          /\ UNCHANGED <<machines, index>>
       \/ /\ DescriptionsError(params) # None
          /\ fail_json(<<DescriptionsError(params)>>)
          /\ UNCHANGED <<machines, index, raised, missed>>
       \/ /\ DescriptionsError(params) = None
          /\ machines' = <<>>
          /\ index' = 1
          /\ pc' = "create_loop"
          /\ UNCHANGED <<result, raised, missed>>
    /\ UNCHANGED <<module, params, now, servers, wait_timeout, routine, ret,
                   lastRead, cur, changed, calls, polls, sleeps, waitPolls,
                   pollStart, pollCheckedAt, run, prev, handler, atStart>>

\* Whether the name fixed_instance_size_id is bound when the for loop reads
\* it: oneandone_server sets it to None first, the older oneandone module
\* assigns it only inside `if fixed_instance_size:`.
FixedSizeIdBound(m, p) ==
    m = "oneandone_server" \/ Truthy(p.hardware.fixed_instance_size)

\* The creation routine each module's _create_machine calls.
MachineRoutine(m) == IF m = "oneandone_server" THEN "machine" ELSE "machine_legacy"

\* The loop is over: changed is True if a machine was created.
create_return ==
    /\ pc = "create_loop"
    /\ index > params.count
    /\ changed' = (machines # <<>>)
    /\ pc' = "main_exit"
    /\ UNCHANGED <<module, params, now, servers, wait_timeout, routine, ret,
                   lastRead, index, machines, cur, result, calls, polls,
                   sleeps, waitPolls, pollStart, pollCheckedAt, raised,
                   missed, run, prev, handler, atStart>>

\* One pass of the for loop, _create_machine up to its wait: create_server,
\* then either the creation routine or the machine as create_server
\* returned it.  Its except clause turns any error into fail_json.
_create_machine ==
    /\ pc = "create_loop"
    /\ index <= params.count
    /\ LET machine == [id |-> "new" \o ToString(index),
                       name |-> Hostnames(params)[index],
                       state |-> "DEPLOYING"]
       IN \/ /\ ~FixedSizeIdBound(module, params)
             /\ fail_json(<<"UnboundLocalError: fixed_instance_size_id">>)
             /\ UNCHANGED <<servers, wait_timeout, routine, ret, lastRead,
                            index, machines, cur, calls, waitPolls, pollStart,
                            pollCheckedAt, raised>>
          \/ \* create_server raises
             /\ FixedSizeIdBound(module, params)
             /\ raised' = "ApiError"
             /\ fail_json(<<"ApiError">>)
             /\ UNCHANGED <<servers, wait_timeout, routine, ret, lastRead,
                            index, machines, cur, calls, waitPolls, pollStart,
                            pollCheckedAt>>
          \/ /\ FixedSizeIdBound(module, params)
             /\ calls' = Append(calls,
                    [op |-> "create_server", id |-> machine.id,
                     arg |-> machine.name, seen |-> None])
             /\ servers' = Append(servers, machine)
             /\ UNCHANGED <<raised, result>>
             /\ IF params.wait
                THEN /\ cur' = machine
                     /\ WaitEnter(MachineRoutine(module), "create_refresh",
                                  params.wait_timeout)
                     /\ UNCHANGED <<machines, index>>
                ELSE /\ machines' = Append(machines, machine)
                     /\ index' = index + 1
                     /\ UNCHANGED <<wait_timeout, routine, ret, lastRead, cur,
                                    waitPolls, pollStart, pollCheckedAt, pc>>
    /\ UNCHANGED <<module, params, now, changed, polls, sleeps, missed, run,
                   prev, handler, atStart>>

\* The creation routine returned: get_server refreshes the machine, which
\* joins the list.
create_refresh ==
    /\ pc = "create_refresh"
    /\ \/ /\ raised' = "ApiError"
          /\ fail_json(<<"ApiError">>)
          /\ UNCHANGED <<servers, index, machines>>
       \/ /\ machines' = Append(machines, [cur EXCEPT !.state = lastRead])
          /\ servers' = WithState(servers, cur.id, lastRead)
          /\ index' = index + 1
          /\ pc' = "create_loop"
          /\ UNCHANGED <<raised, result>>
    /\ UNCHANGED <<module, params, now, wait_timeout, routine, ret, lastRead,
                   cur, changed, calls, polls, sleeps, waitPolls, pollStart,
                   pollCheckedAt, missed, run, prev, handler, atStart>>

\* ---------------------------------------------------------- oneandone: main
\* _validate_custom_hardware_params: all four parameters are truthy.
_validate_custom_hardware_params(hw) ==
    \A k \in CustomHardware : Truthy(hw[k])

\* _validate_hardware_params: exactly one of the two ways is given.
_validate_hardware_params(hw) ==
    Truthy(hw.fixed_instance_size) # _validate_custom_hardware_params(hw)

\* main() of the older oneandone module up to the call of the handler.  It
\* reports rejected hardware parameters with fail_json("...") without the
\* msg keyword; an AnsibleModule whose fail_json takes keywords only raises
\* TypeError there, which nothing catches.
main_oneandone ==
    /\ pc = "main"
    /\ module = "oneandone"
    /\ IF ~params.auth_token
       THEN fail_json(<<"auth_token is required">>)
       ELSE IF params.state = "absent"
       THEN pc' = "remove_machine" /\ UNCHANGED result
       ELSE IF params.state \in {"running", "stopped"}
       THEN pc' = "startstop_machine" /\ UNCHANGED result
       ELSE IF params.state = "present"
       THEN IF ~_validate_hardware_params(params.hardware)
            THEN \/ fail_json(<<"Either fixed_size_instance or custom hardware">>)
                 \/ Uncaught("TypeError: fail_json() takes keyword arguments")
            ELSE IF MissingForPresent(params) # None
            THEN fail_json(<<MissingForPresent(params),
                             " parameter is required for new instance.">>)
            ELSE pc' = "create_machine" /\ UNCHANGED result
       ELSE Uncaught("UnboundLocalError: changed")
    /\ handler' = IF pc' = "done" THEN None ELSE pc'
    /\ UNCHANGED <<module, params, now, servers, wait_timeout, routine, ret,
                   lastRead, index, machines, cur, changed, calls, polls,
                   sleeps, waitPolls, pollStart, pollCheckedAt, raised,
                   missed, run, prev, atStart>>

\* ------------------------------------------------- the resource modules
\* The variables a handler of a resource module never writes.
handlerFrame ==
    <<module, params, now, servers, index, machines, cur, polls, sleeps, run,
      prev, handler, atStart>>

\* The variables only a wait routine writes.
waitFrame ==
    <<wait_timeout, routine, ret, lastRead, waitPolls, pollStart,
      pollCheckedAt>>

\* An except clause that lets the handler go on to its return.
ApiRaisesSwallowed ==
    /\ raised' = "ApiError"
    /\ pc' = "main_exit"
    /\ UNCHANGED result

\* An API call raises inside try/except: fail_json(msg=str(e)).
ApiRaises ==
    /\ raised' = "ApiError"
    /\ fail_json(<<"ApiError">>)

\* None['id']: the error of a handler that indexes a resource it did not
\* find; the except clause around it reports it.
NoneIndexed ==
    /\ missed' = TRUE
    /\ fail_json(<<"TypeError: 'NoneType' object has no attribute '__getitem__'">>)

\* A mutating API call that succeeded.
Mutate(op) ==
    calls' = Append(calls, [op |-> op, id |-> params.name, arg |-> None,
                            seen |-> None])

\* The mutating API calls ops[1..n], all succeeded.
MutateAll(ops, n) ==
    calls' = calls \o [i \in 1..n |->
                 [op |-> ops[i], id |-> params.name, arg |-> None,
                  seen |-> None]]

\* main() of a module once its checks passed: the handler for the state, or
\* the end of the if/elif chain.  `missing` is the message of a failed check
\* (None if all passed), `fallthrough` what happens after an unmatched state.
MainBranch(missing, handlers, fallthrough) ==
    /\ pc = "main"
    /\ IF ~params.auth_token
       THEN fail_json(<<"auth_token parameter is required.">>)
       ELSE IF params.state \notin DOMAIN handlers
       THEN fallthrough
       ELSE IF missing # None
       THEN fail_json(<<missing>>)
       ELSE pc' = handlers[params.state] /\ UNCHANGED result
    /\ handler' = IF pc' = "done" THEN None ELSE pc'
    /\ UNCHANGED <<module, params, now, servers, wait_timeout, routine, ret,
                   lastRead, index, machines, cur, changed, calls, polls,
                   sleeps, waitPolls, pollStart, pollCheckedAt, raised,
                   missed, run, prev, atStart>>

\* main returns: the process ends and prints no result.
NoResultAtAll == Finish("no_result", {}, FALSE, <<>>)

\* try: find the resource by name, delete it, return; except: fail_json.
\* chg is the value the handler gives `changed`.
FindAndDelete(op, chg) ==
    /\ \/ /\ ApiRaises
          /\ UNCHANGED <<calls, missed, changed>>
       \/ /\ NoneIndexed
          /\ UNCHANGED <<calls, raised, changed>>
       \/ /\ Mutate(op)
          /\ changed' = chg
          /\ pc' = "main_exit"
          /\ UNCHANGED <<raised, missed, result>>
    /\ UNCHANGED <<handlerFrame, waitFrame>>

\* try: create the resource, wait for it if `wait` is set, return; except:
\* fail_json.  back is where the handler goes on after the wait.
CreateAndWait(op, r, back, chg) ==
    \/ /\ ApiRaises
       /\ UNCHANGED <<calls, changed, waitFrame>>
    \/ /\ Mutate(op)
       /\ UNCHANGED <<raised, result>>
       /\ IF params.wait
          THEN /\ WaitEnter(r, back, params.wait_timeout)
               /\ UNCHANGED changed
          ELSE /\ changed' = chg
               /\ pc' = "main_exit"
               /\ UNCHANGED waitFrame

\* The datacenter lookup of a create handler: list_datacenters raises, or
\* no datacenter matches.
DatacenterFails ==
    \/ /\ ApiRaises
       /\ UNCHANGED missed
    \/ /\ missed' = TRUE
       /\ fail_json(<<"datacenter ", params.datacenter, " not found.">>)
       /\ UNCHANGED raised

\* A create handler that assigns datacenter_id only inside `if datacenter is
\* not None:` and reads it afterwards, inside its try block.
CreateInDatacenter(op, r, back) ==
    /\ IF params.datacenter = None
       THEN /\ fail_json(<<"UnboundLocalError: datacenter_id">>)
            /\ UNCHANGED <<calls, changed, raised, missed, waitFrame>>
       ELSE \/ /\ DatacenterFails
               /\ UNCHANGED <<calls, changed, waitFrame>>
            \/ /\ CreateAndWait(op, r, back, TRUE)
               /\ UNCHANGED missed
    /\ UNCHANGED handlerFrame

\* An update handler that makes the calls ops one after the other on the
\* resource it found: one of them raises, or all succeed.
UpdateCalls(ops, chg) ==
    \/ \E n \in 0..(Len(ops) - 1) :
         /\ MutateAll(ops, n)
         /\ ApiRaises
         /\ UNCHANGED <<changed, missed>>
    \/ /\ MutateAll(ops, Len(ops))
       /\ changed' = chg
       /\ pc' = "main_exit"
       /\ UNCHANGED <<raised, missed, result>>

\* The calls of an update, by the truthy options, in the handler's order.
OptionCalls(order) ==
    SelectSeq(order, LAMBDA o : o \in params.options)

\* A creation routine called by a create or update handler returned; the
\* handler reads the resource again where the module does so, sets changed
\* and returns.
resource_created ==
    /\ pc = "resource_created"
    /\ \/ /\ module \in {"oneandone_public_ip", "oneandone_private_network"}
          /\ ApiRaises
          /\ UNCHANGED changed
       \/ /\ changed' = TRUE
          /\ pc' = "main_exit"
          /\ UNCHANGED <<raised, result>>
    /\ UNCHANGED <<handlerFrame, waitFrame, calls, missed>>

\* --------------------------------------------- oneandone_firewall_policy
\* main(): an unmatched state ends the if/elif chain and main returns.
main_oneandone_firewall_policy ==
    /\ module = "oneandone_firewall_policy"
    /\ MainBranch(IF params.state = "present" /\ ~Truthy(params.name)
                  THEN "name parameter is required for new networks."
                  ELSE None,
                  [absent |-> "remove_firewall_policy",
                   update |-> "update_firewall_policy",
                   present |-> "create_firewall_policy"],
                  NoResultAtAll)

create_firewall_policy ==
    /\ pc = "create_firewall_policy"
    /\ CreateAndWait("create_firewall_policy", "firewall_policy", "main_exit",
                     changed)
    /\ UNCHANGED <<handlerFrame, missed>>

\* The calls of update_firewall_policy: modify_firewall when a name (or a
\* description) is given, then one group of calls per list option.
FirewallUpdateCalls ==
    (IF Truthy(params.name) THEN <<"modify_firewall">> ELSE <<>>)
    \o OptionCalls(<<"add_server_ips", "remove_server_ips", "add_rules",
                     "remove_rules">>)

\* update_firewall_policy has no try block of its own: main's except clause
\* reports its errors, among them the one of a policy that was not found
\* (indexed for a call, or passed to exit_json(**None)).
update_firewall_policy ==
    /\ pc = "update_firewall_policy"
    /\ \/ /\ ApiRaises
          /\ UNCHANGED <<calls, changed, missed>>
       \/ /\ NoneIndexed
          /\ UNCHANGED <<calls, changed, raised>>
       \/ /\ Truthy(params.name)
          /\ UpdateCalls(FirewallUpdateCalls, changed)
    /\ UNCHANGED <<handlerFrame, waitFrame>>

remove_firewall_policy ==
    /\ pc = "remove_firewall_policy"
    /\ FindAndDelete("delete_firewall", changed)

\* --------------------------------------------------- oneandone_public_ip
\* main(): after an unmatched state it reaches exit_json(changed=changed,
\* ...) with `changed` never assigned, as in the modules below.
main_oneandone_public_ip ==
    /\ module = "oneandone_public_ip"
    /\ MainBranch(IF params.state \in {"absent", "update"} /\ ~Truthy(params.key)
                  THEN "'public_ip_id' parameter is required."
                  ELSE None,
                  [absent |-> "delete_public_ip",
                   update |-> "update_public_ip",
                   present |-> "create_public_ip"],
                  Uncaught("UnboundLocalError: changed"))

create_public_ip ==
    /\ pc = "create_public_ip"
    /\ CreateInDatacenter("create_public_ip", "public_ip", "resource_created")

\* get_public_ip, modify_public_ip, changed = True, then the wait.
update_public_ip ==
    /\ pc = "update_public_ip"
    /\ \/ /\ ApiRaises
          /\ UNCHANGED <<calls, changed, missed, waitFrame>>
       \/ /\ missed' = TRUE
          /\ fail_json(<<"public IP ", params.key, " not found.">>)
          /\ UNCHANGED <<calls, changed, raised, waitFrame>>
       \/ /\ Mutate("modify_public_ip")
          /\ changed' = TRUE
          /\ UNCHANGED <<raised, missed, result>>
          /\ IF params.wait
             THEN WaitEnter("public_ip", "resource_created",
                            params.wait_timeout)
             ELSE pc' = "main_exit" /\ UNCHANGED waitFrame
    /\ UNCHANGED handlerFrame

delete_public_ip ==
    /\ pc = "delete_public_ip"
    /\ \/ /\ ApiRaises
          /\ UNCHANGED <<calls, changed, missed>>
       \/ /\ missed' = TRUE
          /\ fail_json(<<"public IP ", params.key, " not found.">>)
          /\ UNCHANGED <<calls, changed, raised>>
       \/ /\ Mutate("delete_public_ip")
          /\ changed' = TRUE
          /\ pc' = "main_exit"
          /\ UNCHANGED <<raised, missed, result>>
    /\ UNCHANGED <<handlerFrame, waitFrame>>

\* ----------------------------------------------------------- oneandone_vpn
\* main(): state=update asks for the parameter 'vpn', which the argument
\* spec does not have (it has vpn_id), so update_vpn is never called.
main_oneandone_vpn ==
    /\ module = "oneandone_vpn"
    /\ MainBranch(IF params.state = "update"
                  THEN "'vpn' parameter is required to update a VPN."
                  ELSE IF ~Truthy(params.name)
                  THEN "'name' parameter is required."
                  ELSE None,
                  [absent |-> "remove_vpn",
                   update |-> "update_vpn",
                   present |-> "create_vpn"],
                  Uncaught("UnboundLocalError: changed"))

create_vpn ==
    /\ pc = "create_vpn"
    /\ CreateInDatacenter("create_vpn", "vpn", "resource_created")

remove_vpn ==
    /\ pc = "remove_vpn"
    /\ FindAndDelete("delete_vpn", TRUE)

\* ----------------------------------------------- oneandone_private_network
\* main(): state=update asks for 'private_network', which the argument spec
\* does not have (it has private_network_id): update_network is never called.
main_oneandone_private_network ==
    /\ module = "oneandone_private_network"
    /\ MainBranch(IF params.state = "update"
                  THEN "'private_network' parameter is required."
                  ELSE IF ~Truthy(params.name)
                  THEN "'name' parameter is required."
                  ELSE None,
                  [absent |-> "remove_network",
                   update |-> "update_network",
                   present |-> "create_network"],
                  Uncaught("UnboundLocalError: changed"))

create_network ==
    /\ pc = "create_network"
    /\ CreateInDatacenter("create_private_network", "network",
                          "resource_created")

\* remove_network: find, delete_private_network, then the deletion routine,
\* which it calls whatever the value of `wait`.
remove_network ==
    /\ pc = "remove_network"
    /\ \/ /\ ApiRaises
          /\ UNCHANGED <<calls, missed, waitFrame>>
       \/ /\ NoneIndexed
          /\ UNCHANGED <<calls, raised, waitFrame>>
       \/ /\ Mutate("delete_private_network")
          /\ WaitEnter("network_deletion", "remove_network_return",
                       params.wait_timeout)
          /\ UNCHANGED <<raised, missed, result>>
    /\ UNCHANGED <<handlerFrame, changed>>

\* The deletion routine returned: changed = True, return.
remove_network_return ==
    /\ pc = "remove_network_return"
    /\ changed' = TRUE
    /\ pc' = "main_exit"
    /\ UNCHANGED <<handlerFrame, waitFrame, calls, raised, missed, result>>

\* ------------------------------------------------ oneandone_load_balancer
\* main(): state=present needs name and the five settings (`others`).
main_oneandone_load_balancer ==
    /\ module = "oneandone_load_balancer"
    /\ MainBranch(IF params.state = "present"
                     /\ ~(Truthy(params.name) /\ params.others)
                  THEN "parameter is required for new networks."
                  ELSE None,
                  [absent |-> "remove_load_balancer",
                   update |-> "update_load_balancer",
                   present |-> "create_load_balancer"],
                  Uncaught("UnboundLocalError: changed"))

create_load_balancer ==
    /\ pc = "create_load_balancer"
    /\ CreateInDatacenter("create_load_balancer", "load_balancer",
                          "resource_created")

\* The calls of update_load_balancer: modify_load_balancer when a name (or
\* another setting) is given, then one group of calls per list option.
LoadBalancerUpdateCalls ==
    (IF Truthy(params.name) THEN <<"modify_load_balancer">> ELSE <<>>)
    \o OptionCalls(<<"add_server_ips", "remove_server_ips", "add_rules",
                     "remove_rules">>)

\* update_load_balancer sets changed = True after each group of calls.  It
\* has no try block of its own; a load balancer that was not found is
\* indexed by the first group, and returned as None if there is no group.
update_load_balancer ==
    /\ pc = "update_load_balancer"
    /\ \/ /\ ApiRaises
          /\ UNCHANGED <<calls, changed, missed>>
       \/ /\ LoadBalancerUpdateCalls # <<>>
          /\ NoneIndexed
          /\ UNCHANGED <<calls, changed, raised>>
       \/ /\ LoadBalancerUpdateCalls = <<>>
          /\ missed' = TRUE
          /\ changed' = FALSE
          /\ pc' = "main_exit"
          /\ UNCHANGED <<calls, raised, result>>
       \/ /\ Truthy(params.name)
          /\ UpdateCalls(LoadBalancerUpdateCalls, TRUE)
    /\ UNCHANGED <<handlerFrame, waitFrame>>

remove_load_balancer ==
    /\ pc = "remove_load_balancer"
    /\ FindAndDelete("delete_load_balancer", TRUE)

\* --------------------------------------------- oneandone_monitoring_policy
\* main(): state=update asks for 'monitoring_policy', which the argument
\* spec does not have: update_monitoring_policy is never called.
main_oneandone_monitoring_policy ==
    /\ module = "oneandone_monitoring_policy"
    /\ MainBranch(IF params.state = "update"
                  THEN "'monitoring_policy' parameter is required."
                  ELSE IF ~Truthy(params.name)
                  THEN "'name' parameter is required."
                  ELSE IF params.state = "present" /\ ~params.others
                  THEN "parameter is required for a new monitoring policy."
                  ELSE None,
                  [absent |-> "remove_monitoring_policy",
                   update |-> "update_monitoring_policy",
                   present |-> "create_monitoring_policy"],
                  Uncaught("UnboundLocalError: changed"))

create_monitoring_policy ==
    /\ pc = "create_monitoring_policy"
    /\ CreateAndWait("create_monitoring_policy", "monitoring_policy",
                     "resource_created", TRUE)
    /\ UNCHANGED <<handlerFrame, missed>>

remove_monitoring_policy ==
    /\ pc = "remove_monitoring_policy"
    /\ FindAndDelete("delete_monitoring_policy", TRUE)

\* --------------------------------------------------------- oneandone_roles
\* main(): state=present asks for 'password', which the argument spec does
\* not have: create_role is never called.
main_oneandone_roles ==
    /\ module = "oneandone_roles"
    /\ MainBranch(IF params.state = "present"
                  THEN "parameter is required for new roles."
                  ELSE None,
                  [absent |-> "remove_role",
                   update |-> "update_role",
                   present |-> "create_role"],
                  NoResultAtAll)

\* update_role unpacks the `servers` parameter as a one-element sequence
\* (`_servers, = ...`); if that works it finds the role, calls modify_role
\* (its `_state` is the truthy "update") and then args.any() on a list,
\* an AttributeError its except clause reports.
update_role ==
    /\ pc = "update_role"
    /\ \/ /\ "servers" \notin params.options
          /\ fail_json(<<"TypeError: 'NoneType' object is not iterable">>)
          /\ UNCHANGED <<calls, raised, missed>>
       \/ /\ "servers" \in params.options
          /\ \/ /\ ApiRaises
                /\ UNCHANGED <<calls, missed>>
             \/ /\ NoneIndexed
                /\ UNCHANGED <<calls, raised>>
             \/ /\ Mutate("modify_role")
                /\ fail_json(<<"AttributeError: 'list' object has no attribute 'any'">>)
                /\ UNCHANGED <<raised, missed>>
    /\ UNCHANGED <<handlerFrame, waitFrame, changed>>

remove_role ==
    /\ pc = "remove_role"
    /\ FindAndDelete("delete_role", changed)

\* ---------------------------------------------------------- oneandone_user
\* main(): state=update asks for 'user', which the argument spec does not
\* have (it has user_id): update_user is never called.
main_oneandone_user ==
    /\ module = "oneandone_user"
    /\ MainBranch(IF params.state = "update"
                  THEN "'user' parameter is required to update a user."
                  ELSE IF ~Truthy(params.name)
                  THEN "'name' parameter is required."
                  ELSE IF params.state = "present" /\ ~params.others
                  THEN "password parameter is required for new users."
                  ELSE None,
                  [absent |-> "remove_user",
                   update |-> "update_user",
                   present |-> "create_user"],
                  Uncaught("UnboundLocalError: changed"))

create_user ==
    /\ pc = "create_user"
    /\ CreateAndWait("create_user", "user", "resource_created", TRUE)
    /\ UNCHANGED <<handlerFrame, missed>>

remove_user ==
    /\ pc = "remove_user"
    /\ FindAndDelete("delete_user", TRUE)

\* --------------------------------------------------------- oneandone_users
main_oneandone_users ==
    /\ module = "oneandone_users"
    /\ MainBranch(IF params.state = "present"
                     /\ ~(Truthy(params.name) /\ params.others)
                  THEN "parameter is required for new users."
                  ELSE None,
                  [absent |-> "users_remove_user",
                   update |-> "users_update_user",
                   present |-> "users_create_user"],
                  NoResultAtAll)

\* create_user of oneandone_users
users_create_user ==
    /\ pc = "users_create_user"
    /\ CreateAndWait("create_user", "users", "main_exit", changed)
    /\ UNCHANGED <<handlerFrame, missed>>

\* A handler of oneandone_users that looks the user up by the parameter
\* 'user', which the argument spec does not have: _find_user(None) finds
\* nobody and the handler indexes None.
FindsNobody ==
    /\ \/ /\ ApiRaises
          /\ UNCHANGED missed
       \/ /\ NoneIndexed
          /\ UNCHANGED raised
    /\ UNCHANGED <<handlerFrame, waitFrame, calls, changed>>

\* update_user of oneandone_users
users_update_user ==
    /\ pc = "users_update_user"
    /\ FindsNobody

\* remove_user of oneandone_users
users_remove_user ==
    /\ pc = "users_remove_user"
    /\ FindsNobody

\* ------------------------------------------------------------ the inputs
ServerModules == {"oneandone_server", "oneandone"}

\* The servers of the account before the run.
World(st1, st2) ==
    <<[id |-> "s1", name |-> "web", state |-> st1],
      [id |-> "s2", name |-> "db", state |-> st2]>>

\* Identifiers a task may name: an id, a name, and one that matches nothing.
Identifiers == {"s1", "db", "zz"}

RECURSIVE SeqsUpTo(_, _)
SeqsUpTo(S, n) ==
    IF n = 0 THEN {<<>>}
    ELSE LET shorter == SeqsUpTo(S, n - 1)
         IN shorter \cup {Append(q, x) : q \in shorter, x \in S}

\* instance_ids values: omitted, or a list of up to MaxInstances identifiers.
InstanceIdChoices ==
    {NotAList} \cup {AList(q) : q \in SeqsUpTo(Identifiers, MaxInstances)}

\* wait_timeout values of the module runs.
TimeoutChoices == {0, FixedInterval, FixedInterval + 2}

\* The wait parameters: without wait the other two are never read.
WaitChoices ==
    {[wait |-> FALSE, wait_timeout |-> FixedInterval, wait_interval |-> 1]}
    \cup
    {[wait |-> TRUE, wait_timeout |-> t, wait_interval |-> i] :
        t \in TimeoutChoices, i \in {MaxInterval}}

WithWait(p, w) ==
    [p EXCEPT !.wait = w.wait, !.wait_timeout = w.wait_timeout,
              !.wait_interval = w.wait_interval]

HardwareChoices ==
    {NoHardware,
     [NoHardware EXCEPT !.fixed_instance_size = "XL"],
     [NoHardware EXCEPT !.vcore = "2", !.cores_per_processor = "4",
                        !.ram = "8.0", !.hdds = "hdds"],
     [NoHardware EXCEPT !.fixed_instance_size = "XL", !.vcore = "2"],
     [NoHardware EXCEPT !.vcore = "2"]}

\* state=running or stopped
InitStartStop ==
    /\ module \in ServerModules
    /\ \E st \in {"running", "stopped"},
          ids \in InstanceIdChoices,
          w \in WaitChoices :
         params = WithWait([DefaultParams EXCEPT !.state = st,
                                                 !.instance_ids = ids], w)
    /\ \E st1 \in ONEANDONE_MACHINE_STATES, st2 \in {"POWERED_ON", "POWERED_OFF"} :
         servers = World(st1, st2)

\* state=absent
InitAbsent ==
    /\ module \in ServerModules
    /\ \E ids \in InstanceIdChoices,
          w \in WaitChoices :
         params = WithWait([DefaultParams EXCEPT !.state = "absent",
                                                 !.instance_ids = ids], w)
    /\ servers = World("POWERED_ON", "POWERED_OFF")

\* state=present, the parameter checks: one machine, no wait
InitPresentChecks ==
    /\ module \in ServerModules
    /\ \E h \in {None, "web"}, a \in {None, "centos7"}, hw \in HardwareChoices :
         params = WithWait([DefaultParams EXCEPT
                                !.hostname = h, !.appliance = a,
                                !.description = "a web server",
                                !.hardware = hw],
                           CHOOSE w \in WaitChoices : ~w.wait)
    /\ servers = World("POWERED_ON", "POWERED_OFF")

\* state=present, the creation: both ways to give the hardware, count from 0
InitPresent ==
    /\ module \in ServerModules
    /\ \E n \in 0..MaxCount, inc \in BOOLEAN,
          h \in {"web", "node%d"}, d \in {None, "a web server"},
          hw \in {x \in HardwareChoices : _validate_hardware_params(x)},
          w \in WaitChoices :
         params = WithWait([DefaultParams EXCEPT
                                !.count = n, !.auto_increment = inc,
                                !.hostname = h, !.description = d,
                                !.appliance = "centos7", !.hardware = hw], w)
    /\ servers = World("POWERED_ON", "POWERED_OFF")

\* a state outside the documented choices, or no auth_token
InitOther ==
    /\ module \in ServerModules
    /\ \E st \in {"restarted", "present"}, tok \in BOOLEAN :
         /\ ~(st = "present" /\ tok)
         /\ params = [DefaultParams EXCEPT !.state = st, !.auth_token = tok]
    /\ servers = World("POWERED_ON", "POWERED_OFF")

ResourceModules ==
    {"oneandone_firewall_policy", "oneandone_public_ip", "oneandone_vpn",
     "oneandone_private_network", "oneandone_load_balancer",
     "oneandone_monitoring_policy", "oneandone_roles", "oneandone_user",
     "oneandone_users"}

\* The modules whose argument spec gives datacenter a default.
DatacenterDefault(m) == IF m = "oneandone_public_ip" THEN "US" ELSE None

\* The truthy options of a state=update task.
OptionChoices == {{}, {"add_rules"}, {"servers"},
                  {"add_server_ips", "remove_rules"}}

\* a task of a resource module
InitResource ==
    /\ module \in ResourceModules
    /\ \E st \in {"present", "absent", "update"},
          w \in WaitChoices,
          n \in {None, "res"},
          k \in {None, "id1"},
          dc \in {DatacenterDefault(module), "US"},
          opts \in OptionChoices,
          oth \in BOOLEAN :
         /\ st # "present" => (dc = "US" /\ oth)
         /\ st # "update" => opts = {}
         /\ (n = None) = (k = None)
         /\ params = WithWait([DefaultParams EXCEPT
                                  !.state = st, !.name = n, !.key = k,
                                  !.datacenter = dc, !.options = opts,
                                  !.others = oth], w)
    /\ servers = <<>>

\* a resource module task with a state outside the documented choices, or
\* with no auth_token
InitResourceOther ==
    /\ module \in ResourceModules
    /\ \E st \in {"restarted", "present"}, tok \in BOOLEAN :
         /\ ~(st = "present" /\ tok)
         /\ params = [DefaultParams EXCEPT !.state = st, !.auth_token = tok,
                                           !.name = "res"]
    /\ servers = <<>>

Init ==
    /\ \/ InitStartStop
       \/ InitAbsent
       \/ InitPresentChecks
       \/ InitPresent
       \/ InitOther
       \/ InitResource
       \/ InitResourceOther
    /\ pc = "main"
    /\ routine = None
    /\ RunStart

Next ==
    \/ main_oneandone_server
    \/ main_oneandone
    \/ main_exit
    \/ startstop_machine
    \/ startstop_instance
    \/ startstop_poll
    \/ startstop_timeout
    \/ startstop_return
    \/ remove_machine
    \/ remove_instance
    \/ remove_confirmed
    \/ remove_return
    \/ create_machine
    \/ _create_machine
    \/ create_refresh
    \/ create_return
    \/ WaitExpire
    \/ WaitPollCreation
    \/ WaitPollDeletion
    \/ Rerun
    \/ resource_created
    \/ main_oneandone_firewall_policy
    \/ create_firewall_policy
    \/ update_firewall_policy
    \/ remove_firewall_policy
    \/ main_oneandone_public_ip
    \/ create_public_ip
    \/ update_public_ip
    \/ delete_public_ip
    \/ main_oneandone_vpn
    \/ create_vpn
    \/ remove_vpn
    \/ main_oneandone_private_network
    \/ create_network
    \/ remove_network
    \/ remove_network_return
    \/ main_oneandone_load_balancer
    \/ create_load_balancer
    \/ update_load_balancer
    \/ remove_load_balancer
    \/ main_oneandone_monitoring_policy
    \/ create_monitoring_policy
    \/ remove_monitoring_policy
    \/ main_oneandone_roles
    \/ update_role
    \/ remove_role
    \/ main_oneandone_user
    \/ create_user
    \/ remove_user
    \/ main_oneandone_users
    \/ users_create_user
    \/ users_update_user
    \/ users_remove_user

Spec == Init /\ [][Next]_vars

\* A wait routine never stops: its thread runs until it returns or raises.
SpecWaitFair == SpecWait /\ WF_vars(NextWait)

\* ------------------------------------------------- a lookup, on its own
\* The elements a list endpoint may return: ids and names overlap, so one
\* identifier can equal the id of one element and the name of another, and
\* several elements can carry the same name.  (`name` stands for the second
\* key a lookup compares: name, or country_code for datacenters.)
ListElements ==
    {[id |-> i, name |-> n, state |-> "ACTIVE"] :
        i \in {"s1", "s2", "web"}, n \in {"web", "db", "s1"}}

\* The identifiers looked up: they match by id, by name, by both, or not
\* at all.
LookupIdentifiers == {"s1", "web", "db", "zz"}

\* A lookup is about to run on the list `servers` for the identifier held
\* in the parameter `name`.
InitFind ==
    /\ module = None
    /\ routine = None
    /\ pc = "find_call"
    /\ \E ident \in LookupIdentifiers :
         params = [DefaultParams EXCEPT !.name = ident]
    /\ servers \in SeqsUpTo(ListElements, MaxListLen)
    /\ RunStart

\* for _x in conn.list_xs(): if ident in (_x['id'], _x['name']): return _x
\* -- the function returns None when the loop ends without a match.
FindCall ==
    /\ pc = "find_call"
    /\ LET found == _find_machine(servers, params.name)
       IN /\ index' = found
          /\ cur' = IF found = 0 THEN NoMachine ELSE servers[found]
    /\ Finish("returned", {}, FALSE, <<>>)
    /\ UNCHANGED <<module, params, now, servers, wait_timeout, routine, ret,
                   lastRead, machines, changed, calls, polls, sleeps,
                   waitPolls, pollStart, pollCheckedAt, raised, missed, run,
                   prev, handler, atStart>>

NextFind == FindCall

SpecFind == InitFind /\ [][NextFind]_vars

\* ================================================================ properties

\* least n with n * b >= a, for a >= 0 and b > 0
CeilDiv(a, b) == (a + b - 1) \div b

\* C1: once an API call has raised, the run is over, it ended in fail_json,
\* and the message holds the text of the exception; exit_json is not called.
C1_ApiErrorReported ==
    raised # None =>
        /\ pc = "done"
        /\ result.kind = "fail_json"
        /\ \E i \in 1..Len(result.msg) : result.msg[i] = raised

\* get_server raised on the second read of a wait that followed a create
\* call of a resource module.
C1_Witness ==
    /\ module \in ResourceModules
    /\ raised = "ApiError"
    /\ result.kind = "fail_json"
    /\ calls # <<>>
    /\ waitPolls = 2

\* C5: a run that reaches exit_json passes changed=True if it issued a
\* mutating API call and changed=False if it issued none.
C5_ChangedReflectsCalls ==
    result.kind = "exit_json" =>
        /\ "changed" \in result.keys
        /\ result.changed = (calls # <<>>)

\* C6: whatever the value of state, a run ends in exit_json or fail_json.
C6_ExactlyOneResult ==
    pc = "done" => result.kind \in {"exit_json", "fail_json"}

\* C7: with wait=false a run polls nothing and never sleeps.
C7_NoPollWithoutWait ==
    ~params.wait => (polls = 0 /\ sleeps = 0)

\* C2: a creation routine returns normally only when the status it read last
\* is its success state, whatever the case of the letters (powered_on for
\* servers, active for the rest); while it keeps polling the last status is
\* one of its in-progress states; after 'failed', a status outside that set,
\* or the deadline, it ends in a raised error.
C2_ReturnsOnlyOnSuccess ==
    routine \in CreationRoutines =>
        LET success == IF routine \in {"machine", "machine_legacy"}
                       THEN "powered_on" ELSE "active"
            succeeded == lastRead # None /\ Lower(lastRead) = success
        IN /\ result.kind = "returned" => succeeded
           /\ (pc = "done" /\ ~succeeded) => result.kind = "raised"
           /\ (pc = "wait_loop" /\ lastRead # None) =>
                 /\ Lower(lastRead) \in InProgressStates(routine)
                 /\ Lower(lastRead) \notin {success, "failed"}

\* A routine returned after reading ACTIVE in upper case on its third read.
C2_Witness ==
    /\ routine \in CreationRoutines
    /\ result.kind = "returned"
    /\ lastRead = "ACTIVE"
    /\ waitPolls = 3

\* The statuses after which a routine goes on polling.
NoTerminalRead ==
    \/ lastRead = None
    \/ routine \in CreationRoutines /\ CreationBranch(routine, lastRead) = "continue"
    \/ routine \in DeletionRoutines /\ lastRead = "not logged"

C3_PollBound ==
    waitPolls <= CeilDiv(params.wait_timeout, SleepInterval(routine, params))

C3_TimeoutWhenNoTerminal ==
    (pc = "done" /\ raised = None /\ NoTerminalRead) =>
        /\ result.kind = "raised"
        /\ result.msg = <<"timed out">>

\* C3: with API calls that take no time, every wait routine ends, after at
\* most ceil(wait_timeout / interval) reads, and with the timeout error if it
\* read no terminal state.
C3_WaitTerminates ==
    /\ [](C3_PollBound /\ C3_TimeoutWhenNoTerminal)
    /\ <>(pc = "done")

\* A routine timed out after the full number of reads, three or more.
C3_Witness ==
    /\ pc = "done"
    /\ result.msg = <<"timed out">>
    /\ waitPolls >= 3
    /\ waitPolls = CeilDiv(params.wait_timeout, SleepInterval(routine, params))

\* C4: in startstop_machine every read of a machine's state follows a loop
\* test made less than wait_timeout seconds after the polling for that
\* machine began, for the first entry of instance_ids and for the later ones.
C4_EveryEntryTimesOut ==
    (params.state \in {"running", "stopped"} /\ pollCheckedAt >= 0) =>
        pollCheckedAt - pollStart < params.wait_timeout

\* Every entry of instance_ids that names a server names one that is in the
\* requested state.
AllThere(srv, p) ==
    \A i \in 1..Len(p.instance_ids.items) :
        LET found == _find_machine(srv, p.instance_ids.items[i])
        IN found # 0 => srv[found].state = TargetState(p.state)

\* C8: if every resolved machine is in the requested state when the run
\* starts, startstop_machine issues no call, polls nothing and reports
\* changed=False; and the run that follows a waited run that ended in
\* exit_json issues no call and reports changed=False.
C8_Idempotent ==
    (handler = "startstop_machine") =>
        /\ AllThere(atStart, params) =>
              /\ calls = <<>>
              /\ polls = 0
              /\ sleeps = 0
              /\ result.kind = "exit_json" => result.changed = FALSE
        /\ (run = 2 /\ params.wait) =>
              /\ calls = <<>>
              /\ polls = 0
              /\ result.kind = "exit_json" => result.changed = FALSE

\* The rerun of a waited run that changed two machines reports no change.
C8_Witness ==
    /\ run = 2
    /\ params.wait
    /\ prev.changed = TRUE
    /\ result.kind = "exit_json"
    /\ result.changed = FALSE
    /\ Len(machines) = 2
    /\ machines[1].id # machines[2].id

\* C9: no modify_server_status call is issued for a machine seen in the
\* requested state or on its way to it.
C9_NoCallWhenOnItsWay ==
    \A i \in 1..Len(calls) :
        calls[i].op = "modify_server_status" =>
            calls[i].seen \notin {TargetState(params.state),
                                  Transitional(params.state)}

\* The errors the machine creation routine raises itself.
WaitErrors ==
    {<<"timed out">>, <<"creation failed">>, <<"unknown state">>,
     <<"ValueError: incomplete format">>}

\* C10: a run of create_machine in which every lookup found its object, no
\* API call raised and no wait failed ends in exit_json after exactly count
\* create_server calls, with the count machines in host name order and
\* changed = (count >= 1).
C10_CreatesCountMachines ==
    (/\ handler = "create_machine"
     /\ pc = "done"
     /\ raised = None
     /\ ~missed
     /\ result.msg \notin WaitErrors) =>
        /\ result.kind = "exit_json"
        /\ Len(calls) = params.count
        /\ \A i \in 1..Len(calls) : calls[i].op = "create_server"
        /\ [i \in 1..Len(machines) |-> machines[i].name] = Hostnames(params)
        /\ result.changed = (params.count >= 1)

\* The strictly increasing maps from 1..n into 1..m.
Increasing(n, m) ==
    {f \in [1..n -> 1..m] : \A i, j \in 1..n : i < j => f[i] < f[j]}

\* C11: remove_machine passes over the entries of instance_ids that match no
\* server without failing; when it ends in exit_json the machines it returns
\* are, by id and host name, the servers delete_server was issued for, in
\* the order of instance_ids, and changed is True exactly when there is one.
C11_RemovedAreDeleted ==
    handler = "remove_machine" =>
        /\ (pc = "done" /\ result.kind # "exit_json" /\ raised = None) =>
              \/ ~IsNonEmptyList(params.instance_ids)
              \/ /\ calls # <<>>
                 /\ result.kind = "fail_json"
                 /\ result.msg[1] = "failed to terminate the machine: "
        /\ result.kind = "exit_json" =>
              /\ Len(machines) = Len(calls)
              /\ \A i \in 1..Len(calls) :
                    /\ calls[i].op = "delete_server"
                    /\ calls[i].id = machines[i].id
                    /\ \E k \in 1..Len(atStart) :
                          /\ atStart[k].id = machines[i].id
                          /\ atStart[k].name = machines[i].name
              /\ \E f \in Increasing(Len(machines),
                                      Len(params.instance_ids.items)) :
                    \A i \in 1..Len(machines) :
                        params.instance_ids.items[f[i]]
                            \in {machines[i].id, machines[i].name}
              /\ "changed" \in result.keys
              /\ result.changed = (machines # <<>>)

\* instance_ids named a server and an identifier that matches nothing: the
\* run removed the one server and ended in exit_json.
C11_Witness ==
    /\ handler = "remove_machine"
    /\ result.kind = "exit_json"
    /\ params.instance_ids.items = <<"zz", "db">>
    /\ Len(machines) = 1
    /\ machines[1].id = "s2"
    /\ result.changed = TRUE
    /\ params.wait

\* The positions of the list whose element has the identifier as its id or
\* as its name.
Matching(list, ident) ==
    {i \in 1..Len(list) : list[i].id = ident \/ list[i].name = ident}

\* C12: a lookup returns the first element of the list whose id or name
\* equals the identifier, and None when there is no such element; what it
\* returns always matches on one of the two fields.
C12_FindsFirstMatch ==
    (pc = "done" /\ result.kind = "returned" /\ routine = None) =>
        LET hits == Matching(servers, params.name)
        IN IF hits = {}
           THEN index = 0 /\ cur = NoMachine
           ELSE /\ index \in hits
                /\ \A i \in hits : index <= i
                /\ cur = servers[index]
                /\ params.name \in {cur.id, cur.name}

\* The second of three elements was returned for its name; the first matches
\* on neither field and the third matches by id.
C12_Witness ==
    /\ pc = "done"
    /\ result.kind = "returned"
    /\ routine = None
    /\ Len(servers) = MaxListLen
    /\ index = 2
    /\ cur.name = params.name
    /\ cur.id # params.name
    /\ servers[Len(servers)].id = params.name

\* The modules whose documentation makes datacenter optional for a create.
OptionalDatacenterModules ==
    {"oneandone_load_balancer", "oneandone_vpn", "oneandone_private_network"}

\* C13: a state=present run of the load balancer, VPN or private network
\* module that was given its required parameters but no datacenter, and in
\* which no API call raised and no wait failed, issued its create call and
\* ended in exit_json.
C13_DatacenterOptional ==
    (/\ module \in OptionalDatacenterModules
     /\ handler \in {"create_load_balancer", "create_vpn", "create_network"}
     /\ params.datacenter = None
     /\ pc = "done"
     /\ raised = None
     /\ result.msg \notin WaitErrors) =>
        /\ result.kind = "exit_json"
        /\ Len(calls) = 1

\* The modules that document an identifier parameter for state=update
\* (vpn, private_network, monitoring_policy, user).  Their argument specs
\* declare vpn_id, private_network_id, monitoring_policy_id and user_id in
\* its place; `key` is the identifier the task gives under that name, and
\* module.params.get of the documented name is always None.
UpdateByIdentifierModules ==
    {"oneandone_vpn", "oneandone_private_network",
     "oneandone_monitoring_policy", "oneandone_user"}

\* C14: a state=update run of the VPN, private network, monitoring policy or
\* user module that names an existing resource, and in which no API call
\* raised and no wait failed, issued a modify call and ended in exit_json.
C14_UpdateResolves ==
    (/\ module \in UpdateByIdentifierModules
     /\ params.state = "update"
     /\ params.auth_token
     /\ Truthy(params.key)
     /\ pc = "done"
     /\ raised = None
     /\ ~missed
     /\ result.msg \notin WaitErrors) =>
        /\ result.kind = "exit_json"
        /\ calls # <<>>

\* Exactly one way of sizing the machine is given: a fixed instance size and
\* none of the four custom parameters, or the four and no fixed size.
OneHardwareChoice(hw) ==
    LET custom == {k \in CustomHardware : Given(hw[k])}
    IN \/ Given(hw.fixed_instance_size) /\ custom = {}
       \/ ~Given(hw.fixed_instance_size) /\ custom = CustomHardware

\* C15: in the oneandone module a state=present run whose hardware
\* parameters are not exactly one of the two ways never enters
\* create_machine and issues no API call.
C15_HardwareExclusive ==
    (/\ module = "oneandone"
     /\ params.state = "present"
     /\ ~OneHardwareChoice(params.hardware)) =>
        /\ handler # "create_machine"
        /\ calls = <<>>

\* The number of calls of the operation `op` the run has issued.
OpCount(op) == Cardinality({i \in 1..Len(calls) : calls[i].op = op})

\* C16: whatever the API returns or raises, a run issues create_server at
\* most count times and delete_server and modify_server_status at most once
\* for each entry of instance_ids: while the handler is at entry number
\* index of its list it has issued at most index calls.
C16_NoRetry ==
    module \in ServerModules =>
        /\ OpCount("create_server") <= params.count
        /\ OpCount("delete_server") <= Len(params.instance_ids.items)
        /\ OpCount("modify_server_status") <= Len(params.instance_ids.items)
        /\ Len(calls) <= index

\* The API raised after both entries of instance_ids had their
\* modify_server_status call: the run failed and issued no third call.
C16_Witness ==
    /\ handler = "startstop_machine"
    /\ raised = "ApiError"
    /\ result.kind = "fail_json"
    /\ Len(params.instance_ids.items) = 2
    /\ OpCount("modify_server_status") = 2

\* C17: in create_machine a failed create_server call or a failed wait ends
\* the run in fail_json (the handler goes on past a wait only after reading
\* powered_on); when the run fails at machine number index, the machines
\* before it are complete, no create_server was issued for a later one, no
\* call other than create_server was issued, and every server created is
\* still there.
C17_NoCompensation ==
    handler = "create_machine" =>
        /\ pc = "create_refresh" =>
              (lastRead # None /\ Lower(lastRead) = "powered_on")
        /\ (pc = "done" /\ result.kind # "exit_json") =>
              /\ result.kind = "fail_json"
              /\ index >= 1 =>
                    /\ Len(machines) = index - 1
                    /\ Len(calls) \in {index - 1, index}
        /\ \A i \in 1..Len(calls) :
              /\ calls[i].op = "create_server"
              /\ \E k \in 1..Len(servers) : servers[k].id = calls[i].id

\* The wait for the second of two machines timed out: the first is in the
\* list of machines and both are still on the account.
C17_Witness ==
    /\ handler = "create_machine"
    /\ params.count = 2
    /\ result.kind = "fail_json"
    /\ result.msg = <<"timed out">>
    /\ index = 2
    /\ Len(machines) = 1
    /\ Len(calls) = 2
    /\ Len(servers) = 4

\* Every create_server call but the latest was for a machine that has since
\* been read in state powered_on and joined the list of machines.
SequentialCreate ==
    handler = "create_machine" =>
        \A i \in 1..(Len(calls) - 1) :
            /\ i <= Len(machines)
            /\ machines[i].id = calls[i].id
            /\ Lower(machines[i].state) = "powered_on"

\* In the modules mods: every delete_server call but the latest was for a
\* server that has since joined the list of removed machines, which a
\* server joins only after a reading of the logs that showed its deletion.
SequentialRemove(mods) ==
    (handler = "remove_machine" /\ module \in mods) =>
        /\ \A i \in 1..(Len(calls) - 1) :
              /\ i <= Len(machines)
              /\ machines[i].id = calls[i].id
        /\ Len(machines) <= polls
        /\ pc = "remove_confirmed" => lastRead = "logged"

\* C18 as stated: with wait enabled, create_machine issues create_server
\* for the next machine only after the one before was seen in powered_on,
\* and remove_machine issues delete_server for the next server only after
\* the logs confirmed the deletion of the one before.
C18_StrictlySequential ==
    params.wait => (SequentialCreate /\ SequentialRemove(ServerModules))

\* C18, with the deletion half for the module that has a deletion wait:
\* with wait enabled, create_machine (both server modules) creates the next
\* machine only after the one before was seen in powered_on, and
\* remove_machine of oneandone_server deletes the next server only after the
\* logs confirmed the deletion of the one before.
C18_SequentialWhereWaited ==
    params.wait => (SequentialCreate /\ SequentialRemove({"oneandone_server"}))

\* oneandone_server removed two servers, each confirmed in the logs before
\* the run went on.
C18_Witness ==
    /\ module = "oneandone_server"
    /\ handler = "remove_machine"
    /\ params.wait
    /\ result.kind = "exit_json"
    /\ Len(calls) = 2
    /\ Len(machines) = 2
    /\ machines[1].id # machines[2].id
    /\ polls >= 2

====
